---- MODULE Spec2Model ----
(***************************************************************************)
(* Transfer lifecycle of the FlowSend money-transfer visualisation.        *)
(*                                                                         *)
(* The repository ships several variants of MoneyTransferApp.  One of      *)
(* them is mounted; the variable app says which:                           *)
(*   "timer" - src/src/components/MoneyTransferApp.tsx (first definition): *)
(*             the lifecycle is driven by a 400 ms and a 4000 ms timer;    *)
(*   "map"   - src/unnamed/part_002: the lifecycle is driven by the        *)
(*             requestAnimationFrame loop of the map animation;            *)
(*   "viewport" - the viewport of src/unnamed/part_002 on its own: the     *)
(*             transfer whose corridor the camera frames is an input, and  *)
(*             the history stays as seeded.  In the other two variants     *)
(*             the viewport is left at its default.                        *)
(*                                                                         *)
(* The views TransferAnimation and TransferMap are functions of their      *)
(* transferHistory prop; ViewSpec passes them the histories of a bounded   *)
(* set, one transfer longer at each step (app is "views").                 *)
(*                                                                         *)
(* A TransferArc is drawn for one transfer (key = transfer.id) and keeps    *)
(* an animationProgress of its own; ArcSpec mounts one arc for a transfer  *)
(* of any status and lets the status move on (app is "arc").               *)
(*                                                                         *)
(* src/unnamed/part_004 is a map whose animation loops; LoopSpec mounts it  *)
(* and delivers its frames at the timestamps of a bounded set of gaps      *)
(* (app is "loop").                                                        *)
(*                                                                         *)
(* The second definition of src/src/components/MoneyTransferApp.tsx keeps  *)
(* one currentTransfer and no history; SingleSpec mounts it (app is        *)
(* "single") with currentTransfer held in transferHistory as a sequence    *)
(* of at most one form state, the empty sequence being null.               *)
(*                                                                         *)
(* Time is in milliseconds (Date.now()).  animationProgress is kept in     *)
(* units of 1/10000 so that ANIMATION_SPEED (0.0004 per ms) is exact.      *)
(***************************************************************************)
EXTENDS Integers, Sequences, FiniteSets, TLC

VARIABLES
    app,                  \* which variant is mounted
    now,                  \* the wall clock, Date.now()
    transferHistory,      \* useState<TransferHistoryEntry[]>
    isTransferring,       \* useState(false)
    timeoutsRef,          \* timeoutsRef.current: the registered handles
    timers,               \* setTimeout callbacks the browser still holds
    animatingTransferId,  \* useState<string | null>, 0 is null
    animationProgress,    \* useState(0), in 1/10000
    runs,                 \* closures of animate whose frame is requested
    viewState,            \* useState<MapViewState>(DEFAULT_VIEW_STATE)
    isProgrammaticViewChange,  \* isProgrammaticViewChange.current
    flagResets,           \* frames requested to reset that flag
    lastOp                \* the callback that ran last and what it changed

vars == <<app, now, transferHistory, isTransferring, timeoutsRef, timers,
          animatingTransferId, animationProgress, runs, viewState,
          isProgrammaticViewChange, flagResets, lastOp>>

timerVars == <<timeoutsRef>>
mapVars == <<animatingTransferId, animationProgress, runs>>
viewVars == <<viewState, isProgrammaticViewChange, flagResets>>

----------------------------------------------------------------------------
\* Bounds of the model.

\* submissions accepted in one behaviour
MaxTransfers == 2
\* the clock advances in steps of TickMs ...
TickMs == 2000
\* ... for MaxTicks steps after module load
MaxTicks == 4
\* the callbacks of one behaviour take at most ClockDrift ms of the clock
ClockDrift == 1
\* frames requested by setViewStateProgrammatically and not yet delivered
MaxPendingFrames == 2
\* transfers in a history passed to TransferAnimation and TransferMap
MaxViewTransfers == 2

----------------------------------------------------------------------------
\* Program constants.

undefined == -1
null == 0

MsPerMinute == 1000 * 60
\* const now = Date.now() at module load
ModuleLoadTime == MsPerMinute * 1440
COMPLETION_DELAY == 4000
\* variant: the activation delay typed longer than the completion delay
ACTIVATION_DELAY_Late == COMPLETION_DELAY + 1000
ACTIVATION_DELAY == 400
UNLOCK_DELAY == 450

ProgressOne == 10000
GRADIENT_EPSILON == 10
ANIMATION_SPEED == 4

\* the last clock value of the model
MaxTime == ModuleLoadTime + MaxTicks * TickMs

----------------------------------------------------------------------------
\* Helpers.

Min(a, b) == IF a <= b THEN a ELSE b

Range(s) == {s[i] : i \in 1..Len(s)}

\* A later read of Date.now() in the same callback: not before t.  Time
\* spent in callbacks shows as the clock being off the grid of the ticks.
DateNow(t) ==
    LET spent == (t - ModuleLoadTime) % TickMs
    IN  {t} \cup {Min(t + d, MaxTime) : d \in 1..(ClockDrift - spent)}

InFlight(transfer) == transfer.status \in {"active", "pending"}

\* TransferData, the state of TransferForm at the time of the submit event
\* (the currencies are left out: nothing reads them but the labels)
TransferData(fromCountry, toCountry, amount) ==
    [fromCountry |-> fromCountry, toCountry |-> toCountry, amount |-> amount]

\* The form states the model submits: a usual one, one whose source country
\* is in no coordinate table, and two whose amount is not positive.
FormStates ==
    { TransferData("US", "UK", 1000), TransferData("XX", "IN", 500),
      TransferData("US", "UK", 0), TransferData("US", "UK", -5) }

\* the ids are random strings; a fresh one is modelled by the next number
NewTransferId == Len(transferHistory) + 1

Ids(history) == {history[i].id : i \in 1..Len(history)}

Entry(history, id) == history[CHOOSE i \in 1..Len(history) : history[i].id = id]

\* ids whose entry differs between two histories, and ids that are new
Changed(old, new) ==
    {id \in Ids(new) : id \notin Ids(old) \/ Entry(old, id) # Entry(new, id)}

Op(name, id, new) ==
    [name |-> name, id |-> id, changed |-> Changed(transferHistory, new)]

----------------------------------------------------------------------------
\* The timer-driven app, src/src/components/MoneyTransferApp.tsx.

Timer(kind, id, due) == [kind |-> kind, id |-> id, due |-> due]

\* variant: the handles are forgotten without clearTimeout
clearScheduledTimeouts_KeepsTimers == timers

\* clearScheduledTimeouts: clearTimeout on every registered handle
clearScheduledTimeouts == timers \ Range(timeoutsRef)

\* variant: only an active transfer is force-completed, a pending one is kept
CompletedPrev_ActiveOnly(prev, timestamp) ==
    [i \in 1..Len(prev) |->
        IF prev[i].status = "active"
        THEN [prev[i] EXCEPT !.status = "completed",
                             !.updatedAt = timestamp,
                             !.completedAt = timestamp]
        ELSE prev[i]]

\* prev.map(...) of handleTransferSubmit: force-complete what is in flight
CompletedPrev(prev, timestamp) ==
    [i \in 1..Len(prev) |->
        IF prev[i].status = "active" \/ prev[i].status = "pending"
        THEN [prev[i] EXCEPT !.status = "completed",
                             !.updatedAt = timestamp,
                             !.completedAt = timestamp]
        ELSE prev[i]]

NewPendingEntry(transferId, t, transferData) ==
    [id |-> transferId, status |-> "pending",
     createdAt |-> t, updatedAt |-> t, completedAt |-> undefined,
     fromCountry |-> transferData.fromCountry,
     toCountry |-> transferData.toCountry,
     amount |-> transferData.amount]

\* TransferForm.handleSubmit of the timer-driven app returns early on
\* if (!amount || parseFloat(amount) <= 0)
TimerFormAccepts(transferData) == transferData.amount > 0

\* TransferForm.handleSubmit calls handleTransferSubmit, which has no guard
\* of its own (only the submit button of TransferForm is disabled while
\* isTransferring): it supersedes whatever is in flight.
handleTransferSubmit ==
    /\ app = "timer"
    /\ Len(transferHistory) < MaxTransfers
    /\ now + COMPLETION_DELAY <= MaxTime
    /\ \E transferData \in FormStates, timestamp \in DateNow(now) :
        LET transferId == NewTransferId
            new == Append(CompletedPrev(transferHistory, timestamp),
                          NewPendingEntry(transferId, now, transferData))
            activation == Timer("activate", transferId, now + ACTIVATION_DELAY)
            completion == Timer("complete", transferId, now + COMPLETION_DELAY)
        IN  /\ TimerFormAccepts(transferData)
            /\ isTransferring' = TRUE
            /\ transferHistory' = new
            /\ timers' = clearScheduledTimeouts \cup {activation, completion}
            /\ timeoutsRef' = <<activation, completion>>
            /\ now' = timestamp
            /\ lastOp' = Op("submit", transferId, new)
    /\ UNCHANGED <<viewVars, app, mapVars>>

\* the callback of setTimeout(..., 400)
ActivatePending(prev, transferId, t) ==
    [i \in 1..Len(prev) |->
        IF prev[i].id = transferId /\ prev[i].status = "pending"
        THEN [prev[i] EXCEPT !.status = "active", !.updatedAt = t]
        ELSE prev[i]]

\* variant: the status is left as it was, only updatedAt is written
updateTransferStatus_KeepsStatus(prev, id, status, u, c) ==
    [i \in 1..Len(prev) |->
        IF prev[i].id = id THEN [prev[i] EXCEPT !.updatedAt = u] ELSE prev[i]]

\* updateTransferStatus(id, status): two reads of Date.now()
updateTransferStatus(prev, id, status, u, c) ==
    [i \in 1..Len(prev) |->
        IF prev[i].id = id
        THEN [prev[i] EXCEPT !.status = status,
                             !.updatedAt = u,
                             !.completedAt = IF status = "completed"
                                             THEN c ELSE @]
        ELSE prev[i]]

\* The browser runs a timer callback once it is due, earliest due first.
Due(tm) ==
    /\ tm \in timers
    /\ tm.due <= now
    /\ \A other \in timers : other.due >= tm.due

ActivationTimer ==
    /\ app = "timer"
    /\ \E tm \in timers :
        /\ Due(tm)
        /\ tm.kind = "activate"
        /\ LET new == ActivatePending(transferHistory, tm.id, now)
           IN  /\ transferHistory' = new
               /\ lastOp' = Op("activate", tm.id, new)
        /\ timers' = timers \ {tm}
    /\ UNCHANGED <<viewVars, app, now, isTransferring, timeoutsRef, mapVars>>

CompletionTimer ==
    /\ app = "timer"
    /\ \E tm \in timers :
        /\ Due(tm)
        /\ tm.kind = "complete"
        /\ \E u \in DateNow(now) : \E c \in DateNow(u) :
            LET new == updateTransferStatus(transferHistory, tm.id,
                                            "completed", u, c)
            IN  /\ transferHistory' = new
                /\ now' = c
                /\ lastOp' = Op("complete", tm.id, new)
        /\ isTransferring' = FALSE
        /\ timers' = timers \ {tm}
    /\ UNCHANGED <<viewVars, app, timeoutsRef, mapVars>>

\* variant: reset puts the transfer in flight back to pending
ResetCompleted_Requeue(prev, timestamp) ==
    [i \in 1..Len(prev) |->
        IF prev[i].status = "completed"
        THEN prev[i]
        ELSE [prev[i] EXCEPT !.status = "pending",
                             !.updatedAt = timestamp]]

ResetCompleted(prev, timestamp) ==
    [i \in 1..Len(prev) |->
        IF prev[i].status = "completed"
        THEN prev[i]
        ELSE [prev[i] EXCEPT !.status = "completed",
                             !.updatedAt = timestamp,
                             !.completedAt = timestamp]]

\* variant: reset without clearScheduledTimeouts()
resetTransfer_NoClear ==
    /\ app = "timer"
    /\ LET new == ResetCompleted(transferHistory, now)
       IN  /\ transferHistory' = new
           /\ lastOp' = Op("reset", null, new)
    /\ isTransferring' = FALSE
    /\ UNCHANGED <<viewVars, app, now, timers, timeoutsRef, mapVars>>

resetTransfer ==
    /\ app = "timer"
    /\ LET new == ResetCompleted(transferHistory, now)
       IN  /\ transferHistory' = new
           /\ lastOp' = Op("reset", null, new)
    /\ timers' = clearScheduledTimeouts
    /\ timeoutsRef' = <<>>
    /\ isTransferring' = FALSE
    /\ UNCHANGED <<viewVars, app, now, mapVars>>

\* A submit event that changes nothing: TransferForm.handleSubmit returns
\* before calling onTransferSubmit, or (map app) handleTransferSubmit returns
\* at if (isTransferring).
SubmitIgnored ==
    /\ \E transferData \in FormStates :
        \/ app = "timer" /\ ~TimerFormAccepts(transferData)
        \/ app = "map" /\ (transferData.amount <= 0 \/ isTransferring)
    /\ lastOp' = [name |-> "ignored", id |-> null, changed |-> {}]
    /\ UNCHANGED <<viewVars, app, now, transferHistory, isTransferring, timeoutsRef,
                   timers, animatingTransferId, animationProgress, runs>>

\* the wall clock advances
Tick ==
    /\ app \in {"timer", "map", "single"}
    /\ now < MaxTime
    /\ now' = Min(now + TickMs, MaxTime)
    /\ lastOp' = [name |-> "tick", id |-> null, changed |-> {}]
    /\ UNCHANGED <<viewVars, app, transferHistory, isTransferring, timeoutsRef, timers,
                   mapVars>>

----------------------------------------------------------------------------
\* The map app, src/unnamed/part_002.

SeedEntry(id, status, created, updated, completed, transferData) ==
    [id |-> id, status |-> status,
     fromCountry |-> transferData.fromCountry,
     toCountry |-> transferData.toCountry,
     amount |-> transferData.amount,
     createdAt |-> ModuleLoadTime - MsPerMinute * created,
     updatedAt |-> ModuleLoadTime - MsPerMinute * updated,
     completedAt |-> IF completed = undefined THEN undefined
                     ELSE ModuleLoadTime - MsPerMinute * completed]

\* trf-001 .. trf-005
INITIAL_TRANSFERS ==
    << SeedEntry(1, "active", 35, 2, undefined,
                 TransferData("UK", "IN", 1200)),
       SeedEntry(2, "pending", 90, 20, undefined,
                 TransferData("US", "MX", 850)),
       SeedEntry(3, "completed", 480, 320, 300,
                 TransferData("DE", "FR", 430)),
       SeedEntry(4, "completed", 720, 150, 140,
                 TransferData("CA", "US", 2100)),
       SeedEntry(5, "completed", 1440, 600, 590,
                 TransferData("SG", "AU", 560)) >>

\* The closure of one invocation of the animation effect: its target, the
\* lastTimestamp of animate, and (for the properties) the timestamp of its
\* first frame.
NewRun(id) ==
    [target |-> id, lastTimestamp |-> undefined, firstTimestamp |-> undefined]

\* variant: the effect returns no cleanup
EffectCleanup_Missing(live) == live

\* The cleanup of the animation effect: done = true and
\* cancelAnimationFrame(frameId); no closure of the old invocation runs again.
EffectCleanup(live) == {}

\* variant: the effect resets the progress to 0, as the looping map does
StartProgress_Zero == GRADIENT_EPSILON - GRADIENT_EPSILON

\* setAnimationProgress(GRADIENT_EPSILON) at the start of the effect
StartProgress == GRADIENT_EPSILON

\* The animation effect, run when animatingTransferId has changed to id: the
\* cleanup of the previous invocation, then the body starts a run for id, or
\* returns early when id is null.
AnimationEffect(id, progress, live) ==
    IF id = null
    THEN /\ animationProgress' = progress
         /\ runs' = EffectCleanup(live)
    ELSE /\ animationProgress' = StartProgress
         /\ runs' = EffectCleanup(live) \cup {NewRun(id)}

\* setAnimatingTransferId(id) after the handler set animationProgress to
\* progress and left the closures live: React re-runs the effect only when
\* the id differs.
SetAnimatingTransferId(id, progress, live) ==
    /\ animatingTransferId' = id
    /\ IF id = animatingTransferId
       THEN /\ animationProgress' = progress
            /\ runs' = live
       ELSE AnimationEffect(id, progress, live)

\* variant: the submission leaves the active transfer as it is
CompleteActive_Keeps(prev, nowTimestamp) == prev

\* prev.map(...) of the map app's handleTransferSubmit
CompleteActive(prev, nowTimestamp) ==
    [i \in 1..Len(prev) |->
        IF prev[i].status = "active"
        THEN [prev[i] EXCEPT !.status = "completed",
                             !.updatedAt = nowTimestamp,
                             !.completedAt = nowTimestamp]
        ELSE prev[i]]

\* variant: updatedAt is left at 0
NewActiveEntry_NoUpdatedAt(newTransferId, nowTimestamp, transfer) ==
    [id |-> newTransferId, status |-> "active",
     fromCountry |-> transfer.fromCountry,
     toCountry |-> transfer.toCountry,
     amount |-> transfer.amount,
     createdAt |-> nowTimestamp, updatedAt |-> 0,
     completedAt |-> undefined]

NewActiveEntry(newTransferId, nowTimestamp, transfer) ==
    [id |-> newTransferId, status |-> "active",
     fromCountry |-> transfer.fromCountry,
     toCountry |-> transfer.toCountry,
     amount |-> transfer.amount,
     createdAt |-> nowTimestamp, updatedAt |-> nowTimestamp,
     completedAt |-> undefined]

\* TransferForm.handleSubmit of the map app:
\* if (!isTransferring && formData.amount > 0) onTransferSubmit(formData)
MapFormAccepts(formData) == ~isTransferring /\ formData.amount > 0

MapHandleTransferSubmit ==
    /\ app = "map"
    /\ ~isTransferring
    /\ Len(transferHistory) < Len(INITIAL_TRANSFERS) + MaxTransfers
    /\ now + UNLOCK_DELAY <= MaxTime
    /\ \E transfer \in FormStates :
       LET nowTimestamp == now
           newTransferId == NewTransferId
           new == <<NewActiveEntry(newTransferId, nowTimestamp, transfer)>>
                  \o CompleteActive(transferHistory, nowTimestamp)
       IN  /\ MapFormAccepts(transfer)
           /\ isTransferring' = TRUE
           /\ transferHistory' = new
           /\ SetAnimatingTransferId(newTransferId, GRADIENT_EPSILON, runs)
           /\ timers' = timers \cup
                          {Timer("unlock", newTransferId, now + UNLOCK_DELAY)}
           /\ lastOp' = Op("submit", newTransferId, new)
    /\ UNCHANGED <<viewVars, app, now, timerVars>>

\* variant: the callback leaves the lock set
UnlockTimer_StaysLocked ==
    /\ app = "map"
    /\ \E tm \in timers :
        /\ Due(tm)
        /\ tm.kind = "unlock"
        /\ timers' = timers \ {tm}
        /\ lastOp' = [name |-> "unlock", id |-> tm.id, changed |-> {}]
    /\ UNCHANGED <<viewVars, app, now, transferHistory, isTransferring,
                   timerVars, mapVars>>

\* the callback of setTimeout(..., 450)
UnlockTimer ==
    /\ app = "map"
    /\ \E tm \in timers :
        /\ Due(tm)
        /\ tm.kind = "unlock"
        /\ timers' = timers \ {tm}
        /\ lastOp' = [name |-> "unlock", id |-> tm.id, changed |-> {}]
    /\ isTransferring' = FALSE
    /\ UNCHANGED <<viewVars, app, now, transferHistory, timerVars, mapVars>>

\* a click on an entry of the rendered history
handleHistoryClick ==
    /\ app = "map"
    /\ \E transferId \in Ids(transferHistory) :
        /\ SetAnimatingTransferId(transferId, animationProgress, runs)
        /\ lastOp' = [name |-> "click", id |-> transferId, changed |-> {}]
    /\ UNCHANGED <<viewVars, app, now, transferHistory, isTransferring, timers,
                   timerVars>>

\* variant: finishTransfer forgets to stamp completedAt
FinishUpdated_NoCompletedAt(prev, id, completionTime) ==
    [i \in 1..Len(prev) |->
        IF prev[i].id = id /\ prev[i].status = "active"
        THEN [prev[i] EXCEPT !.status = "completed",
                             !.updatedAt = completionTime]
        ELSE prev[i]]

\* variant: finishTransfer completes the target whatever its status
FinishUpdated_AnyStatus(prev, id, completionTime) ==
    [i \in 1..Len(prev) |->
        IF prev[i].id = id
        THEN [prev[i] EXCEPT !.status = "completed",
                             !.updatedAt = completionTime,
                             !.completedAt = completionTime]
        ELSE prev[i]]

\* variant: finishTransfer completes whatever is active
FinishUpdated_AnyActive(prev, id, completionTime) ==
    [i \in 1..Len(prev) |->
        IF prev[i].status = "active"
        THEN [prev[i] EXCEPT !.status = "completed",
                             !.updatedAt = completionTime,
                             !.completedAt = completionTime]
        ELSE prev[i]]

\* prev.map(...) of finishTransfer
FinishUpdated(prev, id, completionTime) ==
    [i \in 1..Len(prev) |->
        IF prev[i].id = id /\ prev[i].status = "active"
        THEN [prev[i] EXCEPT !.status = "completed",
                             !.updatedAt = completionTime,
                             !.completedAt = completionTime]
        ELSE prev[i]]

\* variant: the next transfer to animate is the first that is not completed
FirstActiveId_InFlight(history) ==
    LET open == {i \in 1..Len(history) : history[i].status # "completed"}
    IN  IF open = {} THEN null
        ELSE history[CHOOSE i \in open : \A j \in open : i <= j].id

\* updated.find((entry) => entry.status === 'active')?.id ?? null
FirstActiveId(history) ==
    LET actives == {i \in 1..Len(history) : history[i].status = "active"}
    IN  IF actives = {} THEN null
        ELSE history[CHOOSE i \in actives : \A j \in actives : i <= j].id

\* finishTransfer of the run r.  React runs a state updater either at once
\* or at the next render; didComplete is read right after setTransferHistory,
\* so it is seen set only when the updater ran eagerly.
finishTransfer(r, eager) ==
    LET completionTime == now
        updated == FinishUpdated(transferHistory, r.target, completionTime)
        didComplete == eager /\ updated # transferHistory
        nextAnimatingId == IF didComplete THEN FirstActiveId(updated)
                           ELSE IF animatingTransferId = r.target THEN null
                           ELSE animatingTransferId
    IN  /\ transferHistory' = updated
        /\ SetAnimatingTransferId(nextAnimatingId, ProgressOne, runs \ {r})
        /\ lastOp' = Op("finish", r.target, updated)

\* variant: the progress wraps around at 1, as the looping map does
NextProgress_Wraps(prev, delta) ==
    LET next == prev + delta * ANIMATION_SPEED
    IN  IF next >= ProgressOne THEN next - ProgressOne ELSE next

\* variant: a fixed step per frame, whatever time has passed
NextProgress_PerFrame(prev, delta) ==
    Min(ProgressOne, prev + 16 * ANIMATION_SPEED)

\* Math.min(1, prev + delta * ANIMATION_SPEED)
NextProgress(prev, delta) == Min(ProgressOne, prev + delta * ANIMATION_SPEED)

\* One animation frame of the run r.  reachedEnd is set inside the updater
\* of setAnimationProgress, so it too is seen only when the updater ran
\* eagerly; otherwise another frame is requested.
animate ==
    /\ app = "map"
    /\ \E r \in runs, eagerProgress \in BOOLEAN, eagerHistory \in BOOLEAN :
        LET timestamp == now
            lastTimestamp == IF r.lastTimestamp = undefined THEN timestamp
                             ELSE r.lastTimestamp
            delta == timestamp - lastTimestamp
            next == NextProgress(animationProgress, delta)
            reachedEnd == eagerProgress /\ next >= ProgressOne
        IN  IF reachedEnd
            THEN finishTransfer(r, eagerHistory)
            ELSE /\ animationProgress' = next
                 /\ runs' = (runs \ {r}) \cup
                       {[r EXCEPT !.lastTimestamp = timestamp,
                                  !.firstTimestamp =
                                      IF @ = undefined THEN timestamp ELSE @]}
                 /\ lastOp' = [name |-> "animate", id |-> r.target,
                               changed |-> {}]
                 /\ UNCHANGED <<transferHistory, animatingTransferId>>
    /\ UNCHANGED <<viewVars, app, now, isTransferring, timers, timerVars>>

\* STATUS_PRIORITY of the map app
STATUS_PRIORITY == [active |-> 0, pending |-> 1, completed |-> 2]

\* variant: ties are broken by updatedAt ascending
CompareTransfers_Ascending(a, b) ==
    LET byStatus == STATUS_PRIORITY[a.status] - STATUS_PRIORITY[b.status]
    IN  IF byStatus # 0 THEN byStatus ELSE a.updatedAt - b.updatedAt

\* (a, b) => STATUS_PRIORITY[a.status] - STATUS_PRIORITY[b.status]
\*           || b.updatedAt - a.updatedAt
CompareTransfers(a, b) ==
    LET byStatus == STATUS_PRIORITY[a.status] - STATUS_PRIORITY[b.status]
    IN  IF byStatus # 0 THEN byStatus ELSE b.updatedAt - a.updatedAt

\* Array.prototype.sort is stable: an entry goes behind every entry that
\* does not compare greater than it
InsertSorted(sorted, entry) ==
    LET greater == {i \in 1..Len(sorted) :
                       CompareTransfers(sorted[i], entry) > 0}
        at == IF greater = {} THEN Len(sorted) + 1
              ELSE CHOOSE i \in greater : \A j \in greater : i <= j
    IN  SubSeq(sorted, 1, at - 1) \o <<entry>>
            \o SubSeq(sorted, at, Len(sorted))

RECURSIVE SortedHistory(_)
\* [...transferHistory].sort(...)
SortedHistory(history) ==
    IF history = <<>> THEN <<>>
    ELSE InsertSorted(SortedHistory(SubSeq(history, 1, Len(history) - 1)),
                      history[Len(history)])

----------------------------------------------------------------------------
\* The viewport of the map app, src/unnamed/part_002.  Longitudes and
\* latitudes are in units of 0.0000005 degrees, so that the midpoint of two
\* coordinates is exact; zoom is in units of 1/40 of that, so that
\* maxDistance / 40 is exact; bearing and pitch are in units of 0.000001.

DegreeUnits == 2000000
ZoomUnits == 40 * DegreeUnits
AngleUnits == 1000000

Abs(x) == IF x < 0 THEN -x ELSE x

Max(a, b) == IF a >= b THEN a ELSE b

DEFAULT_VIEW_STATE ==
    [longitude |-> 0, latitude |-> 0, zoom |-> 1 * ZoomUnits,
     bearing |-> 0, pitch |-> 0,
     padding |-> [top |-> 0, bottom |-> 0, left |-> 0, right |-> 0]]

\* [longitude, latitude] in units of 0.0001 degrees
COUNTRY_COORDINATES ==
    "US" :> <<-957129, 370902>> @@ "UK" :> <<-34360, 553781>> @@
    "DE" :> <<104515, 511657>> @@ "FR" :> <<22137, 462276>> @@
    "IN" :> <<789629, 205937>> @@ "MX" :> <<-1025528, 236345>> @@
    "CA" :> <<-1063468, 561304>> @@ "SG" :> <<1038198, 13521>> @@
    "AU" :> <<1337751, -252744>>

\* COUNTRY_COORDINATES[countryCode]; undefined is the empty tuple
getCountryCoordinates(countryCode) ==
    IF countryCode \in DOMAIN COUNTRY_COORDINATES
    THEN [i \in 1..2 |->
             COUNTRY_COORDINATES[countryCode][i] * (DegreeUnits \div 10000)]
    ELSE <<>>

\* the useMemo animatingCoordinates of a transfer; null is the empty tuple
animatingCoordinates(animatingTransfer) ==
    LET from == getCountryCoordinates(animatingTransfer.fromCountry)
        to == getCountryCoordinates(animatingTransfer.toCountry)
    IN  IF from = <<>> \/ to = <<>> THEN <<>> ELSE <<from, to>>

\* every field of next that is not undefined replaces the field of prev
normalizeViewState(prev, next) ==
    [f \in DOMAIN prev |-> IF f \in DOMAIN next THEN next[f] ELSE prev[f]]

\* variant: the comparison is exact
areViewStatesEqual_Exact(a, b) == a = b

areViewStatesEqual(a, b) ==
    LET eq(x, y, eps) == Abs(x - y) <= eps
    IN  /\ eq(a.longitude, b.longitude, DegreeUnits \div 1000000)
        /\ eq(a.latitude, b.latitude, DegreeUnits \div 1000000)
        /\ eq(a.zoom, b.zoom, ZoomUnits \div 1000)
        /\ eq(a.bearing, b.bearing, AngleUnits \div 1000)
        /\ eq(a.pitch, b.pitch, AngleUnits \div 1000)

\* variant: the zoom is not clamped at 1
CameraView_NoClamp(prev, coordinates) ==
    LET fromLon == coordinates[1][1]
        fromLat == coordinates[1][2]
        toLon == coordinates[2][1]
        toLat == coordinates[2][2]
        maxDistance == Max(Abs(fromLon - toLon), Abs(fromLat - toLat))
    IN  [prev EXCEPT !.longitude = (fromLon + toLon) \div 2,
                     !.latitude = (fromLat + toLat) \div 2,
                     !.zoom = 4 * ZoomUnits - maxDistance]

\* the view the camera effect computes for a corridor, before the comparison
CameraView(prev, coordinates) ==
    LET fromLon == coordinates[1][1]
        fromLat == coordinates[1][2]
        toLon == coordinates[2][1]
        toLat == coordinates[2][2]
        centerLon == (fromLon + toLon) \div 2
        centerLat == (fromLat + toLat) \div 2
        lonDistance == Abs(fromLon - toLon)
        latDistance == Abs(fromLat - toLat)
        maxDistance == Max(lonDistance, latDistance)
        zoom == Max(1 * ZoomUnits, 4 * ZoomUnits - maxDistance)
    IN  [prev EXCEPT !.longitude = centerLon, !.latitude = centerLat,
                     !.zoom = zoom]

\* The transfers the camera can be asked to frame: the seeded ones, a
\* submitted one whose source country has no coordinates and a submitted one
\* whose ends are more than 120 degrees apart.
AnimatedTransfers ==
    Range(INITIAL_TRANSFERS) \cup
        {NewActiveEntry(Len(INITIAL_TRANSFERS) + 1, ModuleLoadTime,
                        TransferData("XX", "IN", 500)),
         NewActiveEntry(Len(INITIAL_TRANSFERS) + 2, ModuleLoadTime,
                        TransferData("CA", "AU", 1000))}

\* The camera positioning effect, run when animatingCoordinates has changed
\* to the corridor of animatingTransfer; setViewStateProgrammatically sets
\* the flag, writes the view and requests the frame that resets the flag.
CameraEffect ==
    /\ app = "viewport"
    /\ flagResets < MaxPendingFrames
    /\ \E animatingTransfer \in AnimatedTransfers :
        LET coordinates == animatingCoordinates(animatingTransfer)
            next == CameraView(viewState, coordinates)
        IN  /\ IF coordinates = <<>>
               THEN UNCHANGED viewVars
               ELSE /\ isProgrammaticViewChange' = TRUE
                    /\ viewState' = IF areViewStatesEqual(viewState, next)
                                    THEN viewState ELSE next
                    /\ flagResets' = flagResets + 1
            /\ lastOp' = [name |-> "camera", id |-> animatingTransfer.id,
                          changed |-> {}]
    /\ UNCHANGED <<app, now, transferHistory, isTransferring, timers,
                   timerVars, mapVars>>

\* the frame callback of setViewStateProgrammatically
ResetProgrammaticFlag ==
    /\ app = "viewport"
    /\ flagResets > 0
    /\ flagResets' = flagResets - 1
    /\ isProgrammaticViewChange' = FALSE
    /\ lastOp' = [name |-> "flagReset", id |-> null, changed |-> {}]
    /\ UNCHANGED <<app, now, transferHistory, isTransferring, timers,
                   timerVars, mapVars, viewState>>

\* a view displaced from base by d in one field
Displaced(base, field, d) == [base EXCEPT ![field] = @ + d]

\* The views a notification of the map can carry: the default view and the
\* view of every corridor, each as it is and displaced in one field by the
\* tolerance of that field or by one unit more, a view that has a zoom
\* only, and the default view turned and padded.
ReportedViews ==
    LET bases == {DEFAULT_VIEW_STATE} \cup
                 {CameraView(DEFAULT_VIEW_STATE, animatingCoordinates(t)) :
                     t \in {u \in AnimatedTransfers :
                               animatingCoordinates(u) # <<>>}}
        eps == [longitude |-> DegreeUnits \div 1000000,
                latitude |-> DegreeUnits \div 1000000,
                zoom |-> ZoomUnits \div 1000,
                bearing |-> AngleUnits \div 1000,
                pitch |-> AngleUnits \div 1000]
    IN  bases
        \cup {Displaced(b, f, eps[f] + d) :
                 b \in bases, f \in DOMAIN eps, d \in 0..1}
        \cup {[zoom |-> 2 * ZoomUnits]}
        \cup {[DEFAULT_VIEW_STATE EXCEPT !.bearing = 45 * AngleUnits,
                                         !.padding.top = 10]}

\* variant: handleMove does not look at originalEvent
MoveAccepted_AnyEvent(event) == ~isProgrammaticViewChange

\* variant: handleMove does not look at the flag
MoveAccepted_IgnoresFlag(event) == event.originalEvent

\* the two early returns of handleMove
MoveAccepted(event) == ~isProgrammaticViewChange /\ event.originalEvent

\* onMove of the map, with or without an originalEvent
handleMove ==
    /\ app = "viewport"
    /\ \E event \in [viewState : ReportedViews, originalEvent : BOOLEAN] :
        LET next == normalizeViewState(viewState, event.viewState)
        IN  /\ viewState' = IF ~MoveAccepted(event) THEN viewState
                            ELSE IF areViewStatesEqual(viewState, next)
                                 THEN viewState
                                 ELSE next
            /\ lastOp' = [name |-> IF event.originalEvent THEN "userMove"
                                   ELSE "mapMove",
                          id |-> null, changed |-> {}]
    /\ UNCHANGED <<app, now, transferHistory, isTransferring, timers,
                   timerVars, mapVars, isProgrammaticViewChange, flagResets>>

----------------------------------------------------------------------------
\* The views derived from the history.

\* history.find(test) ?? null over the positions that pass the test, as a
\* sequence of at most one entry: null is the empty sequence
Find(history, hits) ==
    IF hits = {} THEN <<>>
    ELSE <<history[CHOOSE i \in hits : \A j \in hits : i <= j]>>

\* currentTransfer of TransferAnimation: activeTransfer ?? pendingTransfer
currentTransfer(history) ==
    LET activeOne == Find(history, {i \in 1..Len(history) :
                                       history[i].status = "active"})
        pendingOne == Find(history, {i \in 1..Len(history) :
                                        history[i].status = "pending"})
    IN  IF activeOne # <<>> THEN activeOne ELSE pendingOne

\* variant: MoneyTransferApp looks for an active transfer only
MoneyTransferApp_currentTransfer_ActiveOnly(history) ==
    Find(history, {i \in 1..Len(history) : history[i].status = "active"})

\* currentTransfer of MoneyTransferApp:
\* find((transfer) => status === 'active' || status === 'pending') ?? null
MoneyTransferApp_currentTransfer(history) ==
    Find(history, {i \in 1..Len(history) :
                      \/ history[i].status = "active"
                      \/ history[i].status = "pending"})

\* activeTransfer of the map app
activeTransfer(history) ==
    Find(history, {i \in 1..Len(history) : history[i].status = "active"})

\* animatingTransfer of the map app:
\* find((transfer) => transfer.id === animatingTransferId) ?? activeTransfer
animatingTransfer(history, id) ==
    LET found == Find(history, {i \in 1..Len(history) : history[i].id = id})
    IN  IF found # <<>> THEN found ELSE activeTransfer(history)

RECURSIVE VolumeOf(_, _)
\* history.reduce((sum, transfer) => counted status ? sum + amount : sum, 0)
VolumeOf(history, statuses) ==
    IF history = <<>> THEN 0
    ELSE LET transfer == history[Len(history)]
             sum == VolumeOf(SubSeq(history, 1, Len(history) - 1), statuses)
         IN  IF transfer.status \in statuses THEN sum + transfer.amount
             ELSE sum

\* variant: everything that is not pending counts as settled volume
totalVolume_NotPending(history) == VolumeOf(history, {"completed", "active"})

totalVolume(history) == VolumeOf(history, {"completed"})

pendingVolume(history) == VolumeOf(history, {"pending"})

\* (counts[code] || 0) + 1
Increment(counts, code) ==
    [c \in DOMAIN counts \cup {code} |->
        IF c = code
        THEN (IF code \in DOMAIN counts THEN counts[code] ELSE 0) + 1
        ELSE counts[c]]

RECURSIVE transferCounts_OncePerTransfer(_)
\* variant: a transfer from a country to itself is counted once
transferCounts_OncePerTransfer(history) ==
    IF history = <<>> THEN [c \in {} |-> 0]
    ELSE LET transfer == history[Len(history)]
             counts == transferCounts_OncePerTransfer(
                           SubSeq(history, 1, Len(history) - 1))
         IN  IF transfer.fromCountry = transfer.toCountry
             THEN Increment(counts, transfer.fromCountry)
             ELSE Increment(Increment(counts, transfer.fromCountry),
                            transfer.toCountry)

RECURSIVE transferCounts(_)
\* transferCounts of TransferAnimation: forEach transfer, one more for its
\* fromCountry and one more for its toCountry
transferCounts(history) ==
    IF history = <<>> THEN [c \in {} |-> 0]
    ELSE LET transfer == history[Len(history)]
             counts == transferCounts(SubSeq(history, 1, Len(history) - 1))
         IN  Increment(Increment(counts, transfer.fromCountry),
                       transfer.toCountry)

\* Set.prototype.add, the Set kept as the sequence of its insertion order
SetAdd(highlighted, code) ==
    IF code \in Range(highlighted) THEN highlighted
    ELSE Append(highlighted, code)

RECURSIVE activeCountries(_)
\* activeCountries of TransferAnimation: Array.from(highlighted)
activeCountries(history) ==
    IF history = <<>> THEN <<>>
    ELSE LET transfer == history[Len(history)]
             highlighted == activeCountries(
                                SubSeq(history, 1, Len(history) - 1))
         IN  IF transfer.status = "active" \/ transfer.status = "pending"
             THEN SetAdd(SetAdd(highlighted, transfer.fromCountry),
                         transfer.toCountry)
             ELSE highlighted

\* the keys of COUNTRY_COORDINATES of TransferMap
TransferMapCountries ==
    {"UK", "US", "IN", "CA", "AU", "DE", "FR", "JP", "SG", "AE"}

\* statusPriority of TransferMap
statusPriority == [active |-> 3, pending |-> 2, completed |-> 1]

\* updateCountryStatus of TransferMap for one end of a transfer
updateCountryStatus(entries, transfer, code) ==
    IF \/ code \notin DOMAIN entries
       \/ statusPriority[transfer.status]
             > statusPriority[entries[code].status]
    THEN [c \in DOMAIN entries \cup {code} |->
             IF c = code THEN [status |-> transfer.status, count |-> 1]
             ELSE entries[c]]
    ELSE [entries EXCEPT ![code].count = @ + 1]

RECURSIVE countryStatus(_)
\* countryStatus of TransferMap after transferHistory.forEach: a transfer
\* with an end that has no coordinates is skipped
countryStatus(history) ==
    IF history = <<>> THEN [c \in {} |-> 0]
    ELSE LET transfer == history[Len(history)]
             entries == countryStatus(SubSeq(history, 1, Len(history) - 1))
         IN  IF \/ transfer.fromCountry \notin TransferMapCountries
                \/ transfer.toCountry \notin TransferMapCountries
             THEN entries
             ELSE updateCountryStatus(
                      updateCountryStatus(entries, transfer,
                                          transfer.fromCountry),
                      transfer, transfer.toCountry)

\* pointFeatures of TransferMap: the status and the count of every country
\* of countryStatus that has coordinates
pointFeatures(history) ==
    LET entries == countryStatus(history)
    IN  [code \in DOMAIN entries \cap TransferMapCountries |-> entries[code]]

\* A transfer as the views can be passed it; the times are those of a
\* transfer that reached its status at module load.
ViewEntry(id, status, fromCountry, toCountry) ==
    [id |-> id, status |-> status,
     fromCountry |-> fromCountry, toCountry |-> toCountry, amount |-> 1000,
     createdAt |-> ModuleLoadTime, updatedAt |-> ModuleLoadTime,
     completedAt |-> IF status = "completed" THEN ModuleLoadTime
                     ELSE undefined]

\* The parent renders the views with a history that is one transfer longer:
\* any status, any two of three country codes, one of them without
\* coordinates.
TransferHistoryProp ==
    /\ app = "views"
    /\ Len(transferHistory) < MaxViewTransfers
    /\ \E status \in {"pending", "active", "completed"},
          fromCountry \in {"US", "UK", "XX"},
          toCountry \in {"US", "UK", "XX"} :
        LET new == Append(transferHistory,
                       ViewEntry(NewTransferId, status, fromCountry,
                                 toCountry))
        IN  /\ transferHistory' = new
            /\ lastOp' = Op("props", NewTransferId, new)
    /\ UNCHANGED <<viewVars, app, now, isTransferring, timers, timerVars,
                   mapVars>>

----------------------------------------------------------------------------
\* Specifications.

Init ==
    /\ app \in {"timer", "map", "viewport"}
    /\ now = ModuleLoadTime
    /\ transferHistory = IF app = "timer" THEN <<>> ELSE INITIAL_TRANSFERS
    /\ isTransferring = FALSE
    /\ timeoutsRef = <<>>
    /\ timers = {}
    /\ animatingTransferId = null
    /\ animationProgress = 0
    /\ runs = {}
    /\ viewState = IF app = "viewport"
                   THEN CameraView(DEFAULT_VIEW_STATE,
                                   animatingCoordinates(INITIAL_TRANSFERS[1]))
                   ELSE DEFAULT_VIEW_STATE
    /\ isProgrammaticViewChange = (app = "viewport")
    /\ flagResets = IF app = "viewport" THEN 1 ELSE 0
    /\ lastOp = [name |-> "init", id |-> null, changed |-> {}]

Next ==
    \/ Tick
    \/ handleTransferSubmit
    \/ ActivationTimer
    \/ CompletionTimer
    \/ resetTransfer
    \/ SubmitIgnored
    \/ MapHandleTransferSubmit
    \/ UnlockTimer
    \/ handleHistoryClick
    \/ animate
    \/ CameraEffect
    \/ ResetProgrammaticFlag
    \/ handleMove

Spec == Init /\ [][Next]_vars

\* Time passes, due timers fire and requested animation frames are
\* delivered; the user's submissions, resets and clicks are not forced.
Fairness ==
    /\ WF_vars(Tick)
    /\ WF_vars(ActivationTimer)
    /\ WF_vars(CompletionTimer)
    /\ WF_vars(UnlockTimer)
    /\ WF_vars(animate)
    /\ WF_vars(ResetProgrammaticFlag)

FairSpec == Spec /\ Fairness

\* the views on their own
ViewInit ==
    /\ app = "views"
    /\ now = ModuleLoadTime
    /\ transferHistory = <<>>
    /\ isTransferring = FALSE
    /\ timeoutsRef = <<>>
    /\ timers = {}
    /\ animatingTransferId = null
    /\ animationProgress = 0
    /\ runs = {}
    /\ viewState = DEFAULT_VIEW_STATE
    /\ isProgrammaticViewChange = FALSE
    /\ flagResets = 0
    /\ lastOp = [name |-> "init", id |-> null, changed |-> {}]

ViewNext == TransferHistoryProp

ViewSpec == ViewInit /\ [][ViewNext]_vars

----------------------------------------------------------------------------
\* One arc of the globe, src/src/components/TransferArc.tsx.  The arc is
\* drawn for transferHistory[1], whose status is its status prop, and
\* animationProgress is the state of the arc.

\* useState(() => ...): 1 for completed, 0.15 for pending, 0 otherwise
ArcInitialProgress(status) ==
    IF status = "completed" THEN ProgressOne
    ELSE IF status = "pending" THEN (15 * ProgressOne) \div 100
    ELSE 0

\* variant: an active arc advances without Math.min
ArcFrameProgress_NoClamp(status, rendered, prev) ==
    IF status = "active" /\ rendered < ProgressOne
    THEN prev + (2 * ProgressOne) \div 100
    ELSE IF status = "pending" /\ rendered < (35 * ProgressOne) \div 100
    THEN Min(prev + ProgressOne \div 100, (35 * ProgressOne) \div 100)
    ELSE prev

\* the two state updates of the useFrame callback: rendered is the
\* animationProgress the callback closes over, prev the one of the updater
ArcFrameProgress(status, rendered, prev) ==
    IF status = "active" /\ rendered < ProgressOne
    THEN Min(prev + (2 * ProgressOne) \div 100, ProgressOne)
    ELSE IF status = "pending" /\ rendered < (35 * ProgressOne) \div 100
    THEN Min(prev + ProgressOne \div 100, (35 * ProgressOne) \div 100)
    ELSE prev

\* useEffect(..., [status])
ArcStatusEffect(status, prev) ==
    IF status = "completed" THEN ProgressOne
    ELSE IF status = "pending" THEN Max(prev, (15 * ProgressOne) \div 100)
    ELSE prev

\* Math.floor((arcPoints.length - 1) * animationProgress), arcPoints being
\* the 51 points of curve.getPoints(50)
ArcCurrentIndex(progress) == (50 * progress) \div ProgressOne

\* visiblePoints.length: slice(0, Math.max(visibleCount, 1))
ArcVisibleLength(progress) == Max((51 * progress) \div ProgressOne, 1)

\* a frame of the render loop
ArcFrame ==
    /\ app = "arc"
    /\ animationProgress' = ArcFrameProgress(transferHistory[1].status,
                                             animationProgress,
                                             animationProgress)
    /\ lastOp' = [name |-> "frame", id |-> transferHistory[1].id,
                  changed |-> {}]
    /\ UNCHANGED <<viewVars, app, now, transferHistory, isTransferring,
                   timers, timerVars, animatingTransferId, runs>>

\* the parent renders the arc with the next status of its transfer, and the
\* effect of the arc on status runs
ArcStatusProp ==
    /\ app = "arc"
    /\ \E status \in {"active", "completed"} :
        LET new == [transferHistory EXCEPT ![1].status = status]
        IN  /\ \/ transferHistory[1].status = "pending"
               \/ transferHistory[1].status = "active" /\ status = "completed"
            /\ transferHistory' = new
            /\ animationProgress' = ArcStatusEffect(status, animationProgress)
            /\ lastOp' = Op("status", transferHistory[1].id, new)
    /\ UNCHANGED <<viewVars, app, now, isTransferring, timers, timerVars,
                   animatingTransferId, runs>>

\* the arc is mounted for a transfer of any status; the effect on status
\* runs on mount
ArcInit ==
    /\ app = "arc"
    /\ now = ModuleLoadTime
    /\ \E status \in {"pending", "active", "completed"} :
        /\ transferHistory = <<ViewEntry(1, status, "US", "UK")>>
        /\ animationProgress =
               ArcStatusEffect(status, ArcInitialProgress(status))
    /\ isTransferring = FALSE
    /\ timeoutsRef = <<>>
    /\ timers = {}
    /\ animatingTransferId = null
    /\ runs = {}
    /\ viewState = DEFAULT_VIEW_STATE
    /\ isProgrammaticViewChange = FALSE
    /\ flagResets = 0
    /\ lastOp = [name |-> "init", id |-> null, changed |-> {}]

ArcNext == ArcFrame \/ ArcStatusProp

ArcSpec == ArcInit /\ [][ArcNext]_vars

----------------------------------------------------------------------------
\* The looping map, src/unnamed/part_004.  Its initialTransfers are the
\* five transfers of INITIAL_TRANSFERS.

\* useState(() => firstActive?.id ?? initialTransfers[0]?.id ?? null)
LoopInitialTarget ==
    IF FirstActiveId(INITIAL_TRANSFERS) # null
    THEN FirstActiveId(INITIAL_TRANSFERS)
    ELSE IF INITIAL_TRANSFERS # <<>> THEN INITIAL_TRANSFERS[1].id ELSE null

\* the updater of setAnimationProgress in animate:
\* progress = prev + delta * 0.0004; progress > 1 ? progress - 1 : progress
LoopProgress(prev, delta) ==
    LET progress == prev + delta * ANIMATION_SPEED
    IN  IF progress > ProgressOne THEN progress - ProgressOne ELSE progress

\* The time between two frames, in ms: frames of a page that is busy, and
\* two gaps of a tab that was in the background.
FrameGaps == {250, 1000, 2600, 6000}

\* One animation frame, delivered gap ms after the last step.
LoopAnimate ==
    /\ app = "loop"
    /\ \E r \in runs, gap \in FrameGaps :
        LET timestamp == now + gap
            lastTimestamp == IF r.lastTimestamp = undefined THEN timestamp
                             ELSE r.lastTimestamp
            delta == timestamp - lastTimestamp
        IN  /\ timestamp <= MaxTime
            /\ now' = timestamp
            /\ animationProgress' = LoopProgress(animationProgress, delta)
            /\ runs' = (runs \ {r}) \cup
                          {[r EXCEPT !.lastTimestamp = timestamp,
                                     !.firstTimestamp =
                                         IF @ = undefined THEN timestamp
                                         ELSE @]}
            /\ lastOp' = [name |-> "animate", id |-> r.target,
                          changed |-> {}]
    /\ UNCHANGED <<viewVars, app, transferHistory, isTransferring, timers,
                   timerVars, animatingTransferId>>

\* A click on an entry of the history.  The animation effect depends on
\* animatingTransferId: on a new id its cleanup cancels the frame, and it
\* sets the progress to 0 and requests a frame.
LoopHistoryClick ==
    /\ app = "loop"
    /\ \E transferId \in Ids(transferHistory) :
        /\ animatingTransferId' = transferId
        /\ IF transferId = animatingTransferId
           THEN UNCHANGED <<animationProgress, runs>>
           ELSE /\ animationProgress' = 0
                /\ runs' = {NewRun(transferId)}
        /\ lastOp' = [name |-> "click", id |-> transferId, changed |-> {}]
    /\ UNCHANGED <<viewVars, app, now, transferHistory, isTransferring,
                   timers, timerVars>>

\* the state after mount: the animation effect has run for the first
\* active transfer
LoopInit ==
    /\ app = "loop"
    /\ now = ModuleLoadTime
    /\ transferHistory = INITIAL_TRANSFERS
    /\ isTransferring = FALSE
    /\ timeoutsRef = <<>>
    /\ timers = {}
    /\ animatingTransferId = LoopInitialTarget
    /\ animationProgress = 0
    /\ runs = IF LoopInitialTarget = null THEN {}
              ELSE {NewRun(LoopInitialTarget)}
    /\ viewState = DEFAULT_VIEW_STATE
    /\ isProgrammaticViewChange = FALSE
    /\ flagResets = 0
    /\ lastOp = [name |-> "init", id |-> null, changed |-> {}]

LoopNext == LoopAnimate \/ LoopHistoryClick

LoopSpec == LoopInit /\ [][LoopNext]_vars

----------------------------------------------------------------------------
\* The single-transfer app, the second definition of
\* src/src/components/MoneyTransferApp.tsx.  The id of a timer is 1 while
\* the transfer it was scheduled for is the current one and null once that
\* transfer was reset; the code keeps no handle and clears no timer.

\* handleTransferSubmit of the single-transfer app: no guard, no clearTimeout
SingleHandleTransferSubmit ==
    /\ app = "single"
    /\ now + COMPLETION_DELAY <= MaxTime
    /\ \E transferData \in FormStates :
        /\ TimerFormAccepts(transferData)
        /\ isTransferring' = TRUE
        /\ transferHistory' = <<transferData>>
        /\ timers' = timers \cup
                       {Timer("complete", 1, now + COMPLETION_DELAY)}
        /\ lastOp' = [name |-> "submit", id |-> 1, changed |-> {}]
    /\ UNCHANGED <<viewVars, app, now, timeoutsRef, mapVars>>

\* the callback of setTimeout(..., 4000)
SingleCompletionTimer ==
    /\ app = "single"
    /\ \E tm \in timers :
        /\ Due(tm)
        /\ timers' = timers \ {tm}
        /\ lastOp' = [name |-> "complete", id |-> tm.id, changed |-> {}]
    /\ isTransferring' = FALSE
    /\ UNCHANGED <<viewVars, app, now, transferHistory, timeoutsRef,
                   mapVars>>

\* resetTransfer of the single-transfer app, offered while there is a
\* current transfer
SingleResetTransfer ==
    /\ app = "single"
    /\ transferHistory # <<>>
    /\ transferHistory' = <<>>
    /\ isTransferring' = FALSE
    /\ timers' = {[tm EXCEPT !.id = null] : tm \in timers}
    /\ lastOp' = [name |-> "reset", id |-> null, changed |-> {}]
    /\ UNCHANGED <<viewVars, app, now, timeoutsRef, mapVars>>

SingleInit ==
    /\ app = "single"
    /\ now = ModuleLoadTime
    /\ transferHistory = <<>>
    /\ isTransferring = FALSE
    /\ timeoutsRef = <<>>
    /\ timers = {}
    /\ animatingTransferId = null
    /\ animationProgress = 0
    /\ runs = {}
    /\ viewState = DEFAULT_VIEW_STATE
    /\ isProgrammaticViewChange = FALSE
    /\ flagResets = 0
    /\ lastOp = [name |-> "init", id |-> null, changed |-> {}]

SingleNext ==
    \/ SingleHandleTransferSubmit
    \/ SingleCompletionTimer
    \/ SingleResetTransfer
    \/ Tick

SingleSpec == SingleInit /\ [][SingleNext]_vars

----------------------------------------------------------------------------
\* Properties of the lifecycle.

\* the order of the lifecycle: pending, then active, then completed
STATUS_RANK == [pending |-> 0, active |-> 1, completed |-> 2]

TimerIds == 1..MaxTransfers
MapIds == 1..(Len(INITIAL_TRANSFERS) + MaxTransfers)

InFlightIds(history) ==
    {history[i].id : i \in {j \in 1..Len(history) : InFlight(history[j])}}

IsCompleted(history, id) ==
    id \in Ids(history) /\ Entry(history, id).status = "completed"

NotCompleted(history) ==
    {i \in 1..Len(history) : history[i].status # "completed"}

\* C1: in the timer-driven app, right after a submission exactly one
\* transfer is pending or active, it is the submitted one, and every transfer
\* that was pending or active before the submission is completed with
\* completedAt defined.
C1_SubmitLeavesOneInFlight ==
    [][(app = "timer" /\ lastOp'.name = "submit") =>
          /\ InFlightIds(transferHistory') = {lastOp'.id}
          /\ Cardinality({i \in 1..Len(transferHistory') :
                             InFlight(transferHistory'[i])}) = 1
          /\ \A id \in InFlightIds(transferHistory) :
                /\ Entry(transferHistory', id).status = "completed"
                /\ Entry(transferHistory', id).completedAt # undefined]_vars

\* a submission has just superseded a transfer that was in flight
C1_Witness ==
    /\ app = "timer"
    /\ lastOp.name = "submit"
    /\ \E id \in lastOp.changed :
        /\ id # lastOp.id
        /\ Entry(transferHistory, id).status = "completed"

\* C2: the map app's history never holds two transfers that are not
\* completed.
C2_AtMostOneNotCompleted ==
    app = "map" => Cardinality(NotCompleted(transferHistory)) <= 1

\* C3: no step of any operation lowers the status rank of a transfer
\* (pending < active < completed), and no transfer disappears.
C3_StatusNeverRegresses ==
    [][\A id \in Ids(transferHistory) :
          /\ id \in Ids(transferHistory')
          /\ STATUS_RANK[Entry(transferHistory', id).status]
                >= STATUS_RANK[Entry(transferHistory, id).status]]_vars

\* an operation has just changed the history while an earlier completed
\* transfer was in it
C3_Witness ==
    /\ lastOp.changed # {}
    /\ \E id \in Ids(transferHistory) \ lastOp.changed :
        /\ Entry(transferHistory, id).status = "completed"
        /\ Entry(transferHistory, id).createdAt >= ModuleLoadTime

\* C4: completedAt is defined exactly for the completed transfers.
C4_CompletedAtIffCompleted ==
    \A i \in 1..Len(transferHistory) :
        (transferHistory[i].completedAt # undefined)
            <=> (transferHistory[i].status = "completed")

\* an operation has just completed a transfer
C4_Witness ==
    \E id \in lastOp.changed :
        /\ Entry(transferHistory, id).status = "completed"
        /\ Entry(transferHistory, id).completedAt # undefined

\* C5: once completedAt is defined, no step changes completedAt or
\* updatedAt of that transfer.
C5_CompletedAtStampedOnce ==
    [][\A id \in Ids(transferHistory) :
          Entry(transferHistory, id).completedAt # undefined =>
              /\ id \in Ids(transferHistory')
              /\ Entry(transferHistory', id).completedAt
                    = Entry(transferHistory, id).completedAt
              /\ Entry(transferHistory', id).updatedAt
                    = Entry(transferHistory, id).updatedAt]_vars

\* the clock has moved on since a transfer was completed by an operation of
\* the program, and an operation has changed the history since
C5_Witness ==
    /\ lastOp.changed # {}
    /\ \E id \in Ids(transferHistory) \ lastOp.changed :
        /\ Entry(transferHistory, id).completedAt # undefined
        /\ Entry(transferHistory, id).completedAt >= ModuleLoadTime
        /\ Entry(transferHistory, id).completedAt < now

\* C6: in the timer-driven app a submitted transfer is appended as pending,
\* the 400 ms timer makes it active, the 4000 ms timer makes it completed
\* with completedAt defined and finds it active, and with time passing and
\* due timers firing every submitted transfer is eventually completed.
C6_TimerLifecycle ==
    /\ [][(app = "timer" /\ lastOp'.name = "submit") =>
            /\ Len(transferHistory') = Len(transferHistory) + 1
            /\ lastOp'.id \notin Ids(transferHistory)
            /\ Entry(transferHistory', lastOp'.id).status = "pending"]_vars
    /\ [][(app = "timer" /\ lastOp'.name = "activate") =>
            /\ Entry(transferHistory, lastOp'.id).status = "pending"
            /\ Entry(transferHistory', lastOp'.id).status = "active"]_vars
    /\ [][(app = "timer" /\ lastOp'.name = "complete") =>
            /\ Entry(transferHistory, lastOp'.id).status = "active"
            /\ Entry(transferHistory', lastOp'.id).status = "completed"
            /\ Entry(transferHistory', lastOp'.id).completedAt
                  # undefined]_vars
    /\ \A id \in TimerIds :
          (app = "timer" /\ id \in Ids(transferHistory))
              ~> IsCompleted(transferHistory, id)

\* the 4000 ms timer has just completed a transfer
C6_Witness ==
    /\ app = "timer"
    /\ lastOp.name = "complete"
    /\ lastOp.changed = {lastOp.id}
    /\ Entry(transferHistory, lastOp.id).status = "completed"

\* C7: in the timer-driven app no callback stays scheduled for a transfer
\* that was superseded or reset (such a transfer is completed), so none can
\* change transferHistory or isTransferring afterwards.
C7_NoStaleTimer ==
    app = "timer" =>
        \A tm \in timers :
            /\ tm.id \in Ids(transferHistory)
            /\ Entry(transferHistory, tm.id).status # "completed"

\* a transfer was superseded or reset before its callbacks were due
C7_Witness ==
    /\ app = "timer"
    /\ lastOp.name \in {"submit", "reset"}
    /\ \E id \in lastOp.changed :
        /\ Entry(transferHistory, id).status = "completed"
        /\ Entry(transferHistory, id).createdAt + ACTIVATION_DELAY > now

\* C8: resetTransfer leaves completed transfers as they are and sets every
\* other one to completed with updatedAt = completedAt = the time of the
\* reset; while every transfer is completed, nothing but a submission
\* changes the history.
C8_Reset ==
    /\ [][(app = "timer" /\ lastOp'.name = "reset") =>
            /\ Len(transferHistory') = Len(transferHistory)
            /\ \A i \in 1..Len(transferHistory) :
                  transferHistory'[i] =
                      IF InFlight(transferHistory[i])
                      THEN [transferHistory[i] EXCEPT
                                !.status = "completed",
                                !.updatedAt = now,
                                !.completedAt = now]
                      ELSE transferHistory[i]]_vars
    /\ [][(/\ app = "timer"
           /\ InFlightIds(transferHistory) = {}
           /\ lastOp'.name # "submit") =>
              transferHistory' = transferHistory]_vars

\* a reset has just force-completed the transfer in flight
C8_Witness ==
    /\ app = "timer"
    /\ lastOp.name = "reset"
    /\ lastOp.changed # {}

\* C9: right after a submission the inserted transfer is pending, in every
\* submit handler.
C9_InsertedAsPending ==
    lastOp.name = "submit" =>
        Entry(transferHistory, lastOp.id).status = "pending"

\* C10: in the map app every transfer that is pending or active is
\* eventually completed.
C10_MapEventuallyCompleted ==
    \A id \in MapIds :
        (app = "map" /\ id \in InFlightIds(transferHistory))
            ~> IsCompleted(transferHistory, id)

----------------------------------------------------------------------------
\* Properties of the animation clock of the map app.

\* The step stays within one run: a frame of it, its completion without a
\* new run, or any other callback that leaves the target as it is.
WithinRun ==
    /\ app = "map"
    /\ runs # {}
    /\ \/ lastOp'.name = "animate"
       \/ lastOp'.name = "finish" /\ runs' = {}
       \/ animatingTransferId' = animatingTransferId

\* C11: in the map app animationProgress is always within [0, 1] and, within
\* one run, never decreases from one step to the next.
C11_ProgressMonotone ==
    /\ [](animationProgress \in 0..ProgressOne)
    /\ [][WithinRun => animationProgress' >= animationProgress]_vars

\* a frame has advanced the progress of a run that is still under way
C11_Witness ==
    /\ lastOp.name = "animate"
    /\ animationProgress > GRADIENT_EPSILON
    /\ animationProgress < ProgressOne

\* C12: whenever animatingTransferId changes to a transfer id, by a
\* submission, a click or a completion, animationProgress is set to a value
\* above 0 and at most 0.01, and the new run has not had a frame yet.
C12_ProgressResetOnNewTarget ==
    [][(/\ app = "map"
        /\ animatingTransferId' # animatingTransferId
        /\ animatingTransferId' # null) =>
            /\ animationProgress' > 0
            /\ animationProgress' * 100 <= ProgressOne
            /\ NewRun(animatingTransferId') \in runs']_vars

\* A click has re-targeted the animation while the run of a submitted
\* transfer was under way: that transfer is still active, so its run, started
\* by the submission, had not finished when the target first changed.
C12_Witness ==
    /\ lastOp.name = "click"
    /\ NewRun(lastOp.id) \in runs
    /\ animationProgress = GRADIENT_EPSILON
    /\ \E id \in InFlightIds(transferHistory) :
          /\ id > Len(INITIAL_TRANSFERS)
          /\ id # animatingTransferId
          /\ Entry(transferHistory, id).createdAt < now

\* C13: finishTransfer runs in the frame in which the progress first reaches
\* 1: a frame that does not finish leaves the progress below 1, a finishing
\* frame finds it below 1, and after it the run has no frame requested.
C13_FinishExactlyAtOne ==
    /\ [][(app = "map" /\ lastOp'.name = "animate") =>
            animationProgress' < ProgressOne]_vars
    /\ [][(app = "map" /\ lastOp'.name = "finish") =>
            /\ animationProgress < ProgressOne
            /\ \A r \in runs' : r.target # lastOp'.id]_vars

\* C14: at most one run has a frame requested, and it is the run of the
\* current target: no closure of an earlier target can run.
C14_AtMostOneRun ==
    /\ Cardinality(runs) <= 1
    /\ \A r \in runs : r.target = animatingTransferId

\* A click has started a run while the run of a submitted transfer was under
\* way (that transfer is still active), and a frame of the new run has run.
C14_Witness ==
    /\ lastOp.name = "animate"
    /\ runs # {}
    /\ animatingTransferId <= Len(INITIAL_TRANSFERS)
    /\ \E id \in InFlightIds(transferHistory) :
          /\ id > Len(INITIAL_TRANSFERS)
          /\ Entry(transferHistory, id).createdAt < now

\* C15: for a run whose first frame was at firstTimestamp and whose latest
\* frame was at lastTimestamp, animationProgress is
\* min(1, GRADIENT_EPSILON + (lastTimestamp - firstTimestamp) * ANIMATION_SPEED).
C15_FrameRateIndependent ==
    \A r \in runs :
        r.firstTimestamp # undefined =>
            animationProgress =
                Min(ProgressOne,
                    GRADIENT_EPSILON
                      + (r.lastTimestamp - r.firstTimestamp) * ANIMATION_SPEED)

\* a run has had frames at different times and is not at its end
C15_Witness ==
    \E r \in runs :
        /\ r.firstTimestamp # undefined
        /\ r.lastTimestamp > r.firstTimestamp
        /\ animationProgress < ProgressOne

----------------------------------------------------------------------------
\* Properties of the viewport of the map app.

\* two views that differ by at most 0.000001 degrees in longitude and
\* latitude and by at most 0.001 in zoom, bearing and pitch
WithinTolerance(a, b) ==
    /\ Abs(a.longitude - b.longitude) <= DegreeUnits \div 1000000
    /\ Abs(a.latitude - b.latitude) <= DegreeUnits \div 1000000
    /\ Abs(a.zoom - b.zoom) <= ZoomUnits \div 1000
    /\ Abs(a.bearing - b.bearing) <= AngleUnits \div 1000
    /\ Abs(a.pitch - b.pitch) <= AngleUnits \div 1000

\* C16: a notification of the map changes viewState only if it carries an
\* originalEvent and isProgrammaticViewChange is not set.
C16_OnlyUserMovesStored ==
    [][(/\ app = "viewport"
        /\ lastOp'.name \in {"userMove", "mapMove"}
        /\ viewState' # viewState) =>
            (lastOp'.name = "userMove" /\ ~isProgrammaticViewChange)]_vars

\* a notification with an originalEvent has been stored: only the user turns
\* the map
C16_Witness ==
    /\ lastOp.name = "userMove"
    /\ viewState.bearing # 0

\* C17: no step replaces viewState by a view within the tolerances of it,
\* and the camera effect run twice in a row for one transfer changes
\* nothing the second time.
C17_NoWriteWithinTolerance ==
    /\ [][(app = "viewport" /\ WithinTolerance(viewState, viewState')) =>
            viewState' = viewState]_vars
    /\ [][(/\ app = "viewport"
           /\ lastOp.name = "camera"
           /\ lastOp'.name = "camera"
           /\ lastOp'.id = lastOp.id) =>
              viewState' = viewState]_vars

\* the camera effect has run for a seeded transfer while the stored view was
\* within the tolerances of the computed one without being equal to it
C17_Witness ==
    /\ lastOp.name = "camera"
    /\ lastOp.id \in 1..Len(INITIAL_TRANSFERS)
    /\ LET next == CameraView(viewState,
                       animatingCoordinates(INITIAL_TRANSFERS[lastOp.id]))
       IN  next # viewState /\ WithinTolerance(viewState, next)

----------------------------------------------------------------------------
\* Properties of the submissions and of the sorted history.

\* The country codes the views can place: the transferPoints of the timer
\* app's TransferAnimation, the COUNTRY_COORDINATES of the map app.
ResolvableCodes ==
    IF app = "timer"
    THEN {"UK", "US", "IN", "CA", "AU", "DE", "FR", "JP", "SG", "AE"}
    ELSE DOMAIN COUNTRY_COORDINATES

C19_InsertedAtHead ==
    [][lastOp'.name = "submit" =>
          /\ Len(transferHistory') = Len(transferHistory) + 1
          /\ transferHistory'[1].id = lastOp'.id
          /\ \A i \in 1..Len(transferHistory) :
                transferHistory'[i + 1].id = transferHistory[i].id]_vars

\* C20: in the map app sortedHistory is a permutation of transferHistory in
\* which active transfers come before pending ones and pending ones before
\* completed ones, and transfers of one status are in descending order of
\* updatedAt.
C20_SortedHistory ==
    app = "map" =>
        LET sorted == SortedHistory(transferHistory)
            rank == [active |-> 0, pending |-> 1, completed |-> 2]
        IN  /\ Len(sorted) = Len(transferHistory)
            /\ Range(sorted) = Range(transferHistory)
            /\ \A i, j \in 1..Len(sorted) :
                  i < j =>
                      \/ rank[sorted[i].status] < rank[sorted[j].status]
                      \/ /\ sorted[i].status = sorted[j].status
                         /\ sorted[i].updatedAt >= sorted[j].updatedAt

\* after a submission that superseded the active transfer the history holds
\* all three statuses and is not in sorted order itself
C20_Witness ==
    /\ app = "map"
    /\ lastOp.name = "submit"
    /\ Cardinality(lastOp.changed) > 1
    /\ {transferHistory[i].status : i \in 1..Len(transferHistory)}
           = {"active", "pending", "completed"}
    /\ SortedHistory(transferHistory) # transferHistory

----------------------------------------------------------------------------
\* Properties of the views derived from the history.

\* the first transfer of the history with the status, if there is one
FirstWithStatus(history, status) ==
    {history[i] : i \in {j \in 1..Len(history) :
                            /\ history[j].status = status
                            /\ \A k \in 1..(j - 1) :
                                  history[k].status # status}}

\* C21: the transfer the views animate is the first active transfer of the
\* history, otherwise the first pending one, otherwise none.
C21_ActiveSelection ==
    LET selected == IF app = "timer" THEN currentTransfer(transferHistory)
                    ELSE animatingTransfer(transferHistory,
                                           animatingTransferId)
        firstActive == FirstWithStatus(transferHistory, "active")
        firstPending == FirstWithStatus(transferHistory, "pending")
    IN  Range(selected) = IF firstActive # {} THEN firstActive
                          ELSE firstPending

RECURSIVE AmountOver(_, _)
\* the sum of the amounts of the entries at the indices
AmountOver(history, indices) ==
    IF indices = {} THEN 0
    ELSE LET i == CHOOSE j \in indices : TRUE
         IN  history[i].amount + AmountOver(history, indices \ {i})

\* C22: in the map app totalVolume is the sum of the amounts of the
\* completed transfers and pendingVolume the sum of the amounts of the
\* pending ones.
C22_Volumes ==
    app = "map" =>
        /\ totalVolume(transferHistory) =
              AmountOver(transferHistory,
                  {i \in 1..Len(transferHistory) :
                      transferHistory[i].status = "completed"})
        /\ pendingVolume(transferHistory) =
              AmountOver(transferHistory,
                  {i \in 1..Len(transferHistory) :
                      transferHistory[i].status = "pending"})

\* a submitted transfer has been completed by its animation while another
\* submitted one is active and the seeded one is pending
C22_Witness ==
    /\ app = "map"
    /\ \E i, j \in 1..Len(transferHistory) :
          /\ transferHistory[i].status = "active"
          /\ transferHistory[j].status = "completed"
          /\ transferHistory[j].id > Len(INITIAL_TRANSFERS)
    /\ pendingVolume(transferHistory) > 0

\* the transfers of the history that have the country at the given end
TransfersAt(history, end, code) ==
    {i \in 1..Len(history) : history[i][end] = code}

\* the number of ends of transfers at the country
Participation(history, code) ==
    Cardinality(TransfersAt(history, "fromCountry", code))
        + Cardinality(TransfersAt(history, "toCountry", code))

RECURSIVE SumOfCounts(_, _)
\* the sum of the counts of the countries
SumOfCounts(counts, codes) ==
    IF codes = {} THEN 0
    ELSE LET c == CHOOSE d \in codes : TRUE
         IN  counts[c] + SumOfCounts(counts, codes \ {c})

\* C23: for every history the transferCounts of TransferAnimation give each
\* country the number of transfers that leave it plus the number that reach
\* it, so the counts add up to twice the number of transfers, and
\* activeCountries holds exactly the countries at the ends of the pending
\* and active transfers.
C23_GlobeCounts ==
    LET counts == transferCounts(transferHistory)
        highlighted == activeCountries(transferHistory)
        inFlight == {i \in 1..Len(transferHistory) :
                        InFlight(transferHistory[i])}
    IN  /\ DOMAIN counts =
              {transferHistory[i].fromCountry :
                  i \in 1..Len(transferHistory)}
              \cup {transferHistory[i].toCountry :
                  i \in 1..Len(transferHistory)}
        /\ \A code \in DOMAIN counts :
              counts[code] = Participation(transferHistory, code)
        /\ SumOfCounts(counts, DOMAIN counts) = 2 * Len(transferHistory)
        /\ Range(highlighted) =
              {transferHistory[i].fromCountry : i \in inFlight}
              \cup {transferHistory[i].toCountry : i \in inFlight}
        /\ Cardinality(Range(highlighted)) = Len(highlighted)

\* the views are passed a history with a transfer from a country to itself,
\* a completed transfer and one in flight
C23_Witness ==
    /\ app = "views"
    /\ \E i \in 1..Len(transferHistory) :
          transferHistory[i].fromCountry = transferHistory[i].toCountry
    /\ \E i, j \in 1..Len(transferHistory) :
          /\ transferHistory[i].status = "completed"
          /\ InFlight(transferHistory[j])

\* C24: in TransferMap the count of each country point is the number of
\* ends of transfers at that country, whatever the order and the statuses
\* of the transfers (stated for the histories of the timer-driven app).
C24_MapPointCounts ==
    app = "timer" =>
        LET points == pointFeatures(transferHistory)
        IN  \A code \in DOMAIN points :
                points[code].count = Participation(transferHistory, code)

----------------------------------------------------------------------------
\* Properties of the timestamps and of the camera.

\* C26: every transfer of the history has updatedAt >= createdAt.
C26_UpdatedAfterCreated ==
    \A i \in 1..Len(transferHistory) :
        transferHistory[i].updatedAt >= transferHistory[i].createdAt

\* a submitted transfer has been updated after the clock has moved on
C26_Witness ==
    \E i \in 1..Len(transferHistory) :
        /\ transferHistory[i].createdAt >= ModuleLoadTime
        /\ transferHistory[i].updatedAt > transferHistory[i].createdAt

\* the larger of the differences in longitude and in latitude of a corridor
MaxDistance(coordinates) ==
    Max(Abs(coordinates[1][1] - coordinates[2][1]),
        Abs(coordinates[1][2] - coordinates[2][2]))

\* the corridor of the transfer with the id among the animated transfers
CorridorOf(id) ==
    animatingCoordinates(CHOOSE t \in AnimatedTransfers : t.id = id)

\* C27: a run of the camera effect for a corridor leaves bearing, pitch and
\* padding as they are; unless the view is within the tolerances of its
\* target and stays as it is, the centre becomes the midpoint of the two
\* ends and the zoom max(1, 4 - maxDistance / 40), which is within [1, 4]
\* and no larger than the zoom of any corridor with a smaller maxDistance.
C27_CameraWrite ==
    [][(/\ app = "viewport"
        /\ lastOp'.name = "camera"
        /\ CorridorOf(lastOp'.id) # <<>>) =>
          LET ends == CorridorOf(lastOp'.id)
              zoom == IF MaxDistance(ends) >= 3 * ZoomUnits THEN 1 * ZoomUnits
                      ELSE 4 * ZoomUnits - MaxDistance(ends)
              target == [viewState EXCEPT
                            !.longitude = (ends[1][1] + ends[2][1]) \div 2,
                            !.latitude = (ends[1][2] + ends[2][2]) \div 2,
                            !.zoom = zoom]
          IN  /\ viewState'.bearing = viewState.bearing
              /\ viewState'.pitch = viewState.pitch
              /\ viewState'.padding = viewState.padding
              /\ \/ viewState' = viewState /\ WithinTolerance(viewState,
                                                              target)
                 \/ /\ 2 * viewState'.longitude = ends[1][1] + ends[2][1]
                    /\ 2 * viewState'.latitude = ends[1][2] + ends[2][2]
                    /\ viewState'.zoom = zoom
                    /\ viewState'.zoom >= 1 * ZoomUnits
                    /\ viewState'.zoom <= 4 * ZoomUnits
                    /\ \A t \in AnimatedTransfers :
                          LET other == animatingCoordinates(t)
                          IN  (/\ other # <<>>
                               /\ MaxDistance(other) <= MaxDistance(ends))
                                => CameraView(viewState, other).zoom
                                      >= viewState'.zoom]_vars

\* the camera has framed the corridor whose ends are more than 120 degrees
\* apart, at zoom 1, in a view the user had turned and padded
C27_Witness ==
    /\ lastOp.name = "camera"
    /\ lastOp.id = Len(INITIAL_TRANSFERS) + 2
    /\ viewState.zoom = 1 * ZoomUnits
    /\ viewState.bearing # 0
    /\ viewState.padding.top # 0

----------------------------------------------------------------------------
\* Properties of the map app's target and of its completions.

\* C28: in the map app at most one transfer is active.
C28_AtMostOneActive ==
    app = "map" =>
        Cardinality({i \in 1..Len(transferHistory) :
                        transferHistory[i].status = "active"}) <= 1

\* a submission has inserted an active transfer while another one was
\* active
C28_Witness ==
    /\ app = "map"
    /\ lastOp.name = "submit"
    /\ \E id \in lastOp.changed \ {lastOp.id} :
          Entry(transferHistory, id).completedAt = now

\* C29: in the map app animatingTransferId is null or the id of a transfer
\* of the history, and a run that completes leaves it null.
C29_TargetInHistory ==
    /\ [](app = "map" =>
            animatingTransferId \in Ids(transferHistory) \cup {null})
    /\ [][(app = "map" /\ lastOp'.name = "finish") =>
            animatingTransferId' = null]_vars

\* the run of a submitted transfer has completed it while the seeded
\* transfer was still pending
C29_Witness ==
    /\ app = "map"
    /\ lastOp.name = "finish"
    /\ lastOp.changed = {lastOp.id}
    /\ lastOp.id > Len(INITIAL_TRANSFERS)
    /\ animatingTransferId = null
    /\ InFlightIds(transferHistory) # {}

\* C30: a run that reaches progress 1 completes its target if the target is
\* active, with updatedAt = completedAt = the time of the completion, and
\* changes no other transfer; a frame that does not finish changes none.
C30_OnlyActiveTargetCompleted ==
    /\ [][(app = "map" /\ lastOp'.name = "finish") =>
            /\ Len(transferHistory') = Len(transferHistory)
            /\ \A i \in 1..Len(transferHistory) :
                  transferHistory'[i] =
                      IF /\ transferHistory[i].id = lastOp'.id
                         /\ transferHistory[i].status = "active"
                      THEN [transferHistory[i] EXCEPT
                                !.status = "completed",
                                !.updatedAt = now,
                                !.completedAt = now]
                      ELSE transferHistory[i]]_vars
    /\ [][(app = "map" /\ lastOp'.name = "animate") =>
            transferHistory' = transferHistory]_vars

\* the run of a clicked transfer that is not active has reached its end
\* while another transfer is active
C30_Witness ==
    /\ app = "map"
    /\ lastOp.name = "finish"
    /\ lastOp.changed = {}
    /\ Entry(transferHistory, lastOp.id).status # "active"
    /\ \E i \in 1..Len(transferHistory) :
          transferHistory[i].status = "active"

----------------------------------------------------------------------------
\* Properties of the submission lock and of the two choices of a current
\* transfer.

\* C31: in the timer-driven app isTransferring is true if and only if some
\* transfer is pending or active.
C31_TransferringIffInFlight ==
    app = "timer" =>
        (isTransferring <=> InFlightIds(transferHistory) # {})

\* the completion callback of a second submission has run
C31_Witness ==
    /\ app = "timer"
    /\ lastOp.name = "complete"
    /\ lastOp.changed # {}
    /\ Len(transferHistory) > 1
    /\ ~isTransferring

\* C32: in the timer-driven app MoneyTransferApp and TransferAnimation choose
\* the same current transfer, and they choose none exactly when every
\* transfer is completed.
C32_SameCurrentTransfer ==
    app = "timer" =>
        /\ MoneyTransferApp_currentTransfer(transferHistory) =
               currentTransfer(transferHistory)
        /\ MoneyTransferApp_currentTransfer(transferHistory) = <<>> <=>
               \A i \in 1..Len(transferHistory) :
                   transferHistory[i].status = "completed"
        /\ currentTransfer(transferHistory) = <<>> <=>
               \A i \in 1..Len(transferHistory) :
                   transferHistory[i].status = "completed"

\* a pending transfer is the current one of both, behind a completed one
C32_Witness ==
    /\ app = "timer"
    /\ Len(transferHistory) > 1
    /\ transferHistory[1].status = "completed"
    /\ currentTransfer(transferHistory) # <<>>
    /\ currentTransfer(transferHistory)[1].status = "pending"
    /\ MoneyTransferApp_currentTransfer(transferHistory)[1].id =
           transferHistory[Len(transferHistory)].id

\* C33: in the map app a submission made while isTransferring is true
\* changes nothing, no submission is accepted while it is true, and after an
\* accepted submission isTransferring becomes false again.
C33_SubmissionLock ==
    /\ [][(app = "map" /\ isTransferring) =>
            /\ lastOp'.name # "submit"
            /\ lastOp'.name = "ignored" =>
                  /\ transferHistory' = transferHistory
                  /\ animatingTransferId' = animatingTransferId
                  /\ animationProgress' = animationProgress
                  /\ isTransferring' = isTransferring
                  /\ runs' = runs
                  /\ timers' = timers]_vars
    /\ (app = "map" /\ isTransferring) ~> ~isTransferring

\* a second submission has been accepted after the lock of the first one
\* was released
C33_Witness ==
    /\ app = "map"
    /\ lastOp.name = "submit"
    /\ isTransferring
    /\ Len(transferHistory) > Len(INITIAL_TRANSFERS) + 1

\* a submission has been dropped while the lock was set
C33_Dropped ==
    /\ app = "map"
    /\ lastOp.name = "ignored"
    /\ isTransferring

----------------------------------------------------------------------------
\* Properties of the programmatic-write flag.

\* C34: the flag of a programmatic write is set only while a frame callback
\* that clears it is pending, so it always returns to false; a move of the
\* user that arrives while it is set leaves the view as it is, and the frame
\* callback that clears the flag applies nothing.
C34_FlagReleased ==
    /\ [](app = "viewport" =>
            (isProgrammaticViewChange => flagResets > 0))
    /\ (app = "viewport" /\ isProgrammaticViewChange) ~>
            ~isProgrammaticViewChange
    /\ [][(/\ app = "viewport"
           /\ \/ isProgrammaticViewChange /\ lastOp'.name = "userMove"
              \/ lastOp'.name = "flagReset") =>
            viewState' = viewState]_vars

\* a move of the user has arrived after two programmatic writes of which no
\* frame callback has run
C34_Witness ==
    /\ app = "viewport"
    /\ lastOp.name = "userMove"
    /\ isProgrammaticViewChange
    /\ flagResets > 1

----------------------------------------------------------------------------
\* Properties of the progress of an arc and of the looping map.

C36_LoopProgressWithinUnit ==
    app = "loop" =>
        /\ animationProgress >= 0
        /\ animationProgress <= ProgressOne

----------------------------------------------------------------------------
\* Properties of the single-transfer app.

\* C37: in the single-transfer app the timer of a transfer that was reset
\* changes nothing when it fires, so isTransferring stays true for the
\* whole 4000 ms of a submission made after the reset and less than 4000 ms
\* after the submission of that transfer.
C37_StaleTimerChangesNothing ==
    [][(/\ app = "single"
        /\ lastOp'.name = "complete"
        /\ \E stale \in timers \ timers', tm \in timers' :
              /\ stale.id = null
              /\ tm.id # null
              /\ tm.due > now'
              /\ tm.due - COMPLETION_DELAY < stale.due) =>
          isTransferring' = isTransferring]_vars

====
